---- MODULE Spec2Model ----
(***************************************************************************)
(* Model of devtools/shell-action.py: the `run` action (launcher) that     *)
(* writes a status file, double-forks and executes a command, and the      *)
(* `check` action (poller) that reads, reports and removes the file.       *)
(*                                                                         *)
(* A file's text is a sequence of JSON tokens; json.dump and json.load are *)
(* modelled as a printer and a parser over such sequences.  json.dump into *)
(* open(path, 'w') is a truncating open followed by the write made when    *)
(* the temporary file object is closed at the end of the statement; a      *)
(* record larger than the file object's buffer reaches the file in two     *)
(* parts, and a process interrupted inside json.dump leaves the part it    *)
(* had passed to the file object.                                          *)
(***************************************************************************)
EXTENDS Integers, Sequences, FiniteSets, TLC

\* Largest number of `check` invocations in one behaviour.
MaxPolls == 2

\* Action ids used by the callers: the one `run` of a behaviour launches
\* an id of RunIds, a `check` polls any id.
Ids == {"a1", "a2"}
RunIds == {"a1"}

\* Exit codes (negative: ended by a signal) and standard-error texts a
\* command can produce: a short one and one too long for the buffer of
\* the file object.  The code never looks into the text, so the empty one
\* goes the way of the short one.
ExitCodes == {0, 1, -9}
LongErr == "x * 20000"
StderrTexts == {"boom", LongErr}

\* Signals that end the grandchild: SIGKILL ends it on the spot, SIGINT
\* raises KeyboardInterrupt in it.
Signals == {"KILL", "INT"}

VARIABLES
    files,      \* path /var/run/user/<uid>/<id> -> [exists, data]
    inv,        \* position of the process that invoked `run`
    child,      \* position of the first fork's child
    grand,      \* position of the second fork's child
    runId,      \* action id read by `run`
    status,     \* the launcher's local `status` dict
    fdLinked,   \* the launcher's open file is still linked at status_path
    cmdState,   \* the executed command: "notstarted", "running", "exited"
    output,     \* subprocess.run result [returncode, stderr]
    session,    \* the child's session: "agent" or "own" (after setsid)
    nulled,     \* grandchild's standard streams point at /dev/null
    opens,      \* history: number of open(status_path, 'w') calls done
    writes,     \* history: the launcher's writes, in order
    procs,      \* process table: parents, session, exit code, command starts
    pc,         \* position of the poller inside `check`
    cur,        \* locals of the `check` in progress
    log         \* history: finished `check` invocations

lvars == <<inv, child, grand, runId, status, fdLinked, cmdState, output,
           session, nulled, opens, writes, procs>>
pvars == <<pc, cur, log>>
vars == <<files, inv, child, grand, runId, status, fdLinked, cmdState,
          output, session, nulled, opens, writes, procs, pc, cur, log>>

----------------------------------------------------------------------------
(* JSON text as tokens, JSON values as records *)

\* Punctuation and the literals null, true, false; strings; integers.
\* lo and hi are the bytes missing at the front and at the end of a chunk
\* that a read() has cut; both 0 for a whole one.
P(x) == [t |-> "p", v |-> x, lo |-> 0, hi |-> 0]
S(x) == [t |-> "s", v |-> x, lo |-> 0, hi |-> 0]
N(x) == [t |-> "n", v |-> x, lo |-> 0, hi |-> 0]

KV(k, v) == [k |-> k, v |-> v]
Obj(f) == [kind |-> "obj", fields |-> f, s |-> ""]
Lst(items) == [kind |-> "list", fields |-> items, s |-> ""]
Str(x) == [kind |-> "str", fields |-> <<>>, s |-> x]
None == [kind |-> "none", fields |-> <<>>, s |-> ""]
Bool(x) == [kind |-> "bool", fields |-> <<>>, s |-> x]
Num(x) == [kind |-> "num", fields |-> <<>>, s |-> x]

\* d[k] = v on a dict kept as an insertion-ordered sequence of pairs.
DictSet(f, k, v) ==
    IF \E i \in DOMAIN f : f[i].k = k
    THEN [i \in DOMAIN f |-> IF f[i].k = k THEN KV(k, v) ELSE f[i]]
    ELSE Append(f, KV(k, v))

\* k in d
HasKey(val, k) ==
    /\ val.kind = "obj"
    /\ \E i \in DOMAIN val.fields : val.fields[i].k = k

\* d[k], for a key that is present
Get(val, k) ==
    val.fields[CHOOSE i \in DOMAIN val.fields : val.fields[i].k = k].v

RECURSIVE JsonDump(_)
RECURSIVE DumpFields(_)
RECURSIVE DumpItems(_)

DumpFields(f) ==
    IF f = <<>> THEN <<>>
    ELSE <<S(f[1].k), P(":")>> \o JsonDump(f[1].v)
         \o (IF Len(f) > 1 THEN <<P(",")>> \o DumpFields(Tail(f)) ELSE <<>>)

DumpItems(items) ==
    IF items = <<>> THEN <<>>
    ELSE JsonDump(items[1])
         \o (IF Len(items) > 1 THEN <<P(",")>> \o DumpItems(Tail(items))
             ELSE <<>>)

\* json.dump: the text written for a value, one token for each chunk the
\* encoder passes to the file.
JsonDump(val) ==
    CASE val.kind = "obj" -> <<P("{")>> \o DumpFields(val.fields) \o <<P("}")>>
      [] val.kind = "list" -> <<P("[")>> \o DumpItems(val.fields) \o <<P("]")>>
      [] val.kind = "str" -> <<S(val.s)>>
      [] val.kind = "bool" -> <<P(val.s)>>
      [] val.kind = "num" -> <<N(val.s)>>
      [] OTHER -> <<P("null")>>

NoParse == [ok |-> FALSE, val |-> None, rest |-> <<>>]

RECURSIVE LoadValue(_)
RECURSIVE LoadMembers(_, _)
RECURSIVE LoadItems(_, _)

\* The items of an object after "{" or ",", up to its "}".
LoadMembers(toks, acc) ==
    IF Len(toks) < 3 \/ toks[1].t # "s" \/ toks[2] # P(":") THEN NoParse
    ELSE LET r == LoadValue(SubSeq(toks, 3, Len(toks))) IN
         IF ~r.ok \/ r.rest = <<>> THEN NoParse
         ELSE LET acc2 == DictSet(acc, toks[1].v, r.val) IN
              IF r.rest[1] = P("}")
              THEN [ok |-> TRUE, val |-> Obj(acc2), rest |-> Tail(r.rest)]
              ELSE IF r.rest[1] = P(",") THEN LoadMembers(Tail(r.rest), acc2)
              ELSE NoParse

\* The items of a list after "[" or ",", up to its "]".
LoadItems(toks, acc) ==
    LET r == LoadValue(toks) IN
    IF ~r.ok \/ r.rest = <<>> THEN NoParse
    ELSE LET acc2 == Append(acc, r.val) IN
         IF r.rest[1] = P("]")
         THEN [ok |-> TRUE, val |-> Lst(acc2), rest |-> Tail(r.rest)]
         ELSE IF r.rest[1] = P(",") THEN LoadItems(Tail(r.rest), acc2)
         ELSE NoParse

\* The value at the head of the text, and the text that follows it.
LoadValue(toks) ==
    IF toks = <<>> THEN NoParse
    ELSE IF toks[1].t = "s"
    THEN [ok |-> TRUE, val |-> Str(toks[1].v), rest |-> Tail(toks)]
    ELSE IF toks[1].t = "n"
    THEN [ok |-> TRUE, val |-> Num(toks[1].v), rest |-> Tail(toks)]
    ELSE IF toks[1] = P("null")
    THEN [ok |-> TRUE, val |-> None, rest |-> Tail(toks)]
    ELSE IF toks[1] \in {P("true"), P("false")}
    THEN [ok |-> TRUE, val |-> Bool(toks[1].v), rest |-> Tail(toks)]
    ELSE IF toks[1] = P("{")
    THEN IF Len(toks) >= 2 /\ toks[2] = P("}")
         THEN [ok |-> TRUE, val |-> Obj(<<>>), rest |-> Tail(Tail(toks))]
         ELSE LoadMembers(Tail(toks), <<>>)
    ELSE IF toks[1] = P("[")
    THEN IF Len(toks) >= 2 /\ toks[2] = P("]")
         THEN [ok |-> TRUE, val |-> Lst(<<>>), rest |-> Tail(Tail(toks))]
         ELSE LoadItems(Tail(toks), <<>>)
    ELSE NoParse

\* json.load: one value and nothing after it; ok = FALSE stands for
\* ValueError (JSONDecodeError).
\* A text with a chunk cut short is taken as not JSON.
JsonLoad(toks) ==
    LET r == LoadValue(toks) IN
    IF /\ \A i \in DOMAIN toks : toks[i].lo = 0 /\ toks[i].hi = 0
       /\ r.ok /\ r.rest = <<>>
    THEN [ok |-> TRUE, val |-> r.val]
    ELSE [ok |-> FALSE, val |-> None]

----------------------------------------------------------------------------
(* Status records of the script *)

StatusRunning == Obj(<<KV("status", Str("running"))>>)
StatusFinished == Obj(<<KV("status", Str("finished"))>>)
StatusNotFound ==
    Obj(<<KV("status", Str("failed")),
          KV("error", Str("status file not found"))>>)
StatusDecode ==
    Obj(<<KV("status", Str("failed")),
          KV("error", Str("unable to decode status file"))>>)

\* TerminalStatus that takes any stderr output for a failure.
TerminalStatus_OnStderr(rc, err) ==
    IF rc # 0 \/ err # ""
    THEN Obj(DictSet(DictSet(StatusFinished.fields, "status", Str("failed")),
                     "error", Str(err)))
    ELSE StatusFinished

\* TerminalStatus that tests returncode > 0.
TerminalStatus_Positive(rc, err) ==
    IF rc > 0
    THEN Obj(DictSet(DictSet(StatusFinished.fields, "status", Str("failed")),
                     "error", Str(err)))
    ELSE StatusFinished

\* Lines 84-87: the status built from the command's result.
TerminalStatus(rc, err) ==
    IF rc # 0
    THEN Obj(DictSet(DictSet(StatusFinished.fields, "status", Str("failed")),
                     "error", Str(err)))
    ELSE StatusFinished

----------------------------------------------------------------------------
(* File system *)

Absent == [exists |-> FALSE, data |-> <<>>]
File(d) == [exists |-> TRUE, data |-> d]

NoId == "none"
NoOutput == [returncode |-> 0, stderr |-> ""]

\* How far the launcher's two writes have got:
\* 0 nothing, 1 first open done, 2 first write done, 3 second open done,
\* 4 second write done.
Phase == opens + Len(writes)

\* The same, as it matters to a `check` of this id: the writes of a `run`
\* for another id do not touch its file.
PhaseFor(id) == IF id = runId THEN Phase ELSE 0

\* open(status_path, 'w'): create or truncate.
OpenW(id) == [files EXCEPT ![id] = File(<<>>)]

\* The buffered text reaches the open file when it is closed; it shows at
\* status_path only while that file is still linked there.
WriteClose(id, val) ==
    IF fdLinked THEN [files EXCEPT ![id] = File(JsonDump(val))] ELSE files

\* The first n chunks of a text.
Prefix(text, n) == SubSeq(text, 1, n)

\* Bytes of a string's text.
StrLen(x) ==
    CASE x = "" -> 0
      [] x = "boom" -> 4
      [] x = "error" -> 5
      [] x \in {"status", "failed", "paused"} -> 6
      [] x \in {"running", "pending"} -> 7
      [] x = "finished" -> 8
      [] x = LongErr -> 20000
      [] OTHER -> 1

\* Bytes json.dump writes for a chunk: a string with its quotes, ": " and
\* ", " with their blank.
TokLen(tok) ==
    IF tok.t = "s" THEN StrLen(tok.v) + 2
    ELSE IF tok.t = "n" THEN 1
    ELSE IF tok.v \in {":", ","} THEN 2
    ELSE IF tok.v \in {"null", "true"} THEN 4
    ELSE IF tok.v = "false" THEN 5
    ELSE 1

\* Bytes of a chunk, or of what a read() left of it.
PieceLen(tok) == TokLen(tok) - tok.lo - tok.hi

RECURSIVE Size(_)
Size(text) == IF text = <<>> THEN 0 ELSE PieceLen(text[1]) + Size(Tail(text))

\* The text from byte offset off on; the first chunk left can be cut.
RECURSIVE Skip(_, _)
Skip(text, off) ==
    IF text = <<>> THEN <<>>
    ELSE IF off >= PieceLen(text[1])
    THEN Skip(Tail(text), off - PieceLen(text[1]))
    ELSE <<[text[1] EXCEPT !.lo = @ + off]>> \o Tail(text)

\* At most the first n bytes of the text; the last chunk can be cut.
RECURSIVE Upto(_, _)
Upto(text, n) ==
    IF text = <<>> \/ n <= 0 THEN <<>>
    ELSE IF PieceLen(text[1]) <= n
    THEN <<text[1]>> \o Upto(Tail(text), n - PieceLen(text[1]))
    ELSE <<[text[1] EXCEPT !.hi = @ + (PieceLen(text[1]) - n)]>>

\* What read(fd, n) returns at byte offset off: at most n bytes of the
\* text from there on, nothing when the file ends before.
Slice(text, off, n) == Upto(Skip(text, off), n)

\* The bytes read so far followed by those of one more read(): the two
\* parts of a chunk that was cut come together again.
Join(data, new) ==
    IF data = <<>> \/ new = <<>> THEN data \o new
    ELSE LET a == data[Len(data)]
             b == new[1]
         IN IF /\ a.hi > 0 /\ a.t = b.t /\ a.v = b.v
               /\ b.lo = TokLen(a) - a.hi
            THEN SubSeq(data, 1, Len(data) - 1)
                    \o <<[a EXCEPT !.hi = b.hi]>> \o Tail(new)
            ELSE data \o new

\* FileIO.readall, which f.read() of line 20 comes to: the first buffer
\* holds the size of the file and one byte more, 8192 bytes for an empty
\* file; a full buffer of n bytes grows by max(8192, n + 256).
SmallChunk == 8192

FirstBuffer(size) == IF size > 0 THEN size + 1 ELSE SmallChunk

NewBufferSize(n) ==
    n + (IF n + 256 < SmallChunk THEN SmallChunk ELSE n + 256)

\* A record whose `error` text is larger than the buffer of a file object:
\* the text layer hands the long string, with all that precedes it, to the
\* file as soon as json.dump passes it.
Spills(val) == HasKey(val, "error") /\ Get(val, "error") = Str(LongErr)

\* The command of the `run` for this id has exited.
CmdDoneFor(id) == id = runId /\ cmdState = "exited"

\* off: bytes read so far; phO, phR, phE: the launcher's phase at the
\* open, at the first read() and at the read() that found the end.
\* buf: the size of the read buffer, 0 before the file's size is asked.
NoCur == [id |-> NoId, st |-> None, got |-> FALSE, data |-> <<>>, off |-> 0,
          buf |-> 0,
          phO |-> 0, phR |-> 0, phE |-> 0, late |-> FALSE,
          cmdDone |-> FALSE]

\* No child, no grandchild, invoker not ended (-1), command never started;
\* rc is the command's exit code once it has exited, gerr the exception
\* that ended the grandchild.
NoProcs == [cppid |-> "none", gppid |-> "none", gsid |-> "none",
            invCode |-> -1, execs |-> 0, execBy |-> "none",
            execNulled |-> FALSE, rc |-> 0, gerr |-> "none"]

LauncherInit ==
    /\ inv = "idle" /\ child = "none" /\ grand = "none"
    /\ runId = NoId
    /\ status = None
    /\ fdLinked = FALSE
    /\ cmdState = "notstarted"
    /\ output = NoOutput
    /\ session = "agent"
    /\ nulled = FALSE
    /\ opens = 0
    /\ writes = <<>>
    /\ procs = NoProcs

PollerInit == pc = "idle" /\ cur = NoCur /\ log = <<>>

\* Callers generate a fresh id for every action: no file exists yet.
Init ==
    /\ files = [i \in Ids |-> Absent]
    /\ LauncherInit
    /\ PollerInit

----------------------------------------------------------------------------
(* run: the invoking process, lines 43-59 *)

\* RunBegin with another word for the first status.
RunBegin_Pending(id) ==
    /\ inv = "idle"
    /\ inv' = "open1"
    /\ runId' = id
    /\ status' = Obj(<<KV("status", Str("pending"))>>)
    /\ UNCHANGED <<files, child, grand, fdLinked, cmdState, output, session,
                   nulled, opens, writes, pvars, procs>>

\* Lines 43-50: read the action id, build the path and the first status.
RunBegin(id) ==
    /\ inv = "idle"
    /\ inv' = "open1"
    /\ runId' = id
    /\ status' = StatusRunning
    /\ UNCHANGED <<files, child, grand, fdLinked, cmdState, output, session,
                   nulled, opens, writes, pvars, procs>>

\* Line 51, open(status_path, 'w'); when the file cannot be opened (the
\* user's runtime directory is missing) the exception ends the invoker.
RunOpen1 ==
    /\ inv = "open1"
    /\ \/ /\ inv' = "write1"
          /\ files' = OpenW(runId)
          /\ fdLinked' = TRUE
          /\ opens' = opens + 1
          /\ procs' = procs
       \/ /\ inv' = "error"
          /\ procs' = [procs EXCEPT !.invCode = 1]
          /\ UNCHANGED <<files, fdLinked, opens>>
    /\ UNCHANGED <<child, grand, runId, status, cmdState, output, session,
                   nulled, writes, pvars>>

\* Line 51, json.dump and the close of the temporary file object.
RunWrite1 ==
    /\ inv = "write1"
    /\ inv' = "fork1"
    /\ files' = WriteClose(runId, status)
    /\ fdLinked' = FALSE
    /\ writes' = Append(writes, [val |-> status, data |-> JsonDump(status),
                                 cmd |-> cmdState, linked |-> fdLinked,
                                 by |-> "invoker"])
    /\ UNCHANGED <<child, grand, runId, status, cmdState, output, session,
                   nulled, opens, pvars, procs>>

\* RunFork1 placed before the status file is created.
RunFork1_BeforeWrite ==
    /\ inv \in {"open1", "fork1"}
    /\ \/ /\ inv' = "parent1" /\ child' = "decouple"
          /\ procs' = [procs EXCEPT !.cppid = "invoker"]
       \/ /\ inv' = "error" /\ child' = child
          /\ procs' = [procs EXCEPT !.invCode = 1]
    /\ UNCHANGED <<files, grand, runId, status, fdLinked, cmdState, output,
                   session, nulled, opens, writes, pvars>>

\* Line 56, os.fork(): on success the child starts at line 62; on failure
\* OSError propagates and the invoker ends with an error.
RunFork1 ==
    /\ inv = "fork1"
    /\ \/ /\ inv' = "parent1" /\ child' = "decouple"
          /\ procs' = [procs EXCEPT !.cppid = "invoker"]
       \/ /\ inv' = "error" /\ child' = child
          /\ procs' = [procs EXCEPT !.invCode = 1]
    /\ UNCHANGED <<files, grand, runId, status, fdLinked, cmdState, output,
                   session, nulled, opens, writes, pvars>>

\* InvokerExit that first waits for the forked child to end.
InvokerExit_Wait ==
    /\ inv = "parent1"
    /\ child \in {"exited", "error"}
    /\ inv' = "exited"
    /\ procs' = [procs EXCEPT !.invCode = 0, !.cppid = "init"]
    /\ UNCHANGED <<files, child, grand, runId, status, fdLinked, cmdState,
                   output, session, nulled, opens, writes, pvars>>

\* Lines 57-59: print and sys.exit(0) in the invoking process.
InvokerExit ==
    /\ inv = "parent1"
    /\ inv' = "exited"
    /\ procs' = [procs EXCEPT !.invCode = 0, !.cppid = "init"]
    /\ UNCHANGED <<files, child, grand, runId, status, fdLinked, cmdState,
                   output, session, nulled, opens, writes, pvars>>

----------------------------------------------------------------------------
(* run: the first fork's child, lines 61-68 *)

\* Decouple without the call of setsid().
Decouple_NoSetsid ==
    /\ child = "decouple"
    /\ child' = "fork2"
    /\ UNCHANGED <<files, inv, grand, runId, status, fdLinked, cmdState,
                   output, session, nulled, opens, writes, pvars, procs>>

\* Lines 62-64: chdir("/"), setsid(), umask(0).
Decouple ==
    /\ child = "decouple"
    /\ child' = "fork2"
    /\ session' = "own"
    /\ UNCHANGED <<files, inv, grand, runId, status, fdLinked, cmdState,
                   output, nulled, opens, writes, pvars, procs>>

\* Line 65, the second os.fork(): the grandchild starts at line 71.
RunFork2 ==
    /\ child = "fork2"
    /\ \/ /\ child' = "parent2" /\ grand' = "redirect"
          /\ procs' = [procs EXCEPT !.gppid = "child", !.gsid = session]
       \/ /\ child' = "error" /\ grand' = grand
          /\ procs' = procs
    /\ UNCHANGED <<files, inv, runId, status, fdLinked, cmdState, output,
                   session, nulled, opens, writes, pvars>>

\* Lines 66-68: print and sys.exit(0) in the first child.
ChildExit ==
    /\ child = "parent2"
    /\ child' = "exited"
    /\ procs' = [procs EXCEPT !.gppid = "init"]
    /\ UNCHANGED <<files, inv, grand, runId, status, fdLinked, cmdState,
                   output, session, nulled, opens, writes, pvars>>

----------------------------------------------------------------------------
(* run: the grandchild, lines 70-88 *)

\* Redirect that leaves the inherited standard streams in place.
Redirect_Skip ==
    /\ grand = "redirect"
    /\ grand' = "exec"
    /\ UNCHANGED <<files, inv, child, runId, status, fdLinked, cmdState,
                   output, session, nulled, opens, writes, pvars, procs>>

\* Lines 71-78: flush, open /dev/null three times, dup2 over fds 0, 1, 2.
Redirect ==
    /\ grand = "redirect"
    /\ grand' = "exec"
    /\ nulled' = TRUE
    /\ UNCHANGED <<files, inv, child, runId, status, fdLinked, cmdState,
                   output, session, opens, writes, pvars, procs>>

\* Line 81, subprocess.run starts the command; when the command cannot be
\* started the exception ends the grandchild.
CmdStart ==
    /\ grand = "exec"
    /\ \/ /\ grand' = "wait" /\ cmdState' = "running"
          /\ procs' = [procs EXCEPT !.execs = @ + 1, !.execBy = "grand",
                                    !.execNulled = nulled]
       \/ /\ grand' = "error" /\ cmdState' = cmdState
          /\ procs' = [procs EXCEPT !.gerr = "start"]
    /\ UNCHANGED <<files, inv, child, runId, status, fdLinked, output,
                   session, nulled, opens, writes, pvars>>

\* Lines 81-87: the command exits; subprocess.run decodes the captured
\* output and returns the exit code and stderr, and the terminal status is
\* built.  Output that is not UTF-8 makes subprocess.run raise instead, and
\* the exception ends the grandchild.
CmdExit(rc, err, utf8) ==
    /\ grand = "wait"
    /\ cmdState' = "exited"
    /\ IF utf8
       THEN /\ grand' = "open2"
            /\ output' = [returncode |-> rc, stderr |-> err]
            /\ status' = TerminalStatus(rc, err)
            /\ procs' = [procs EXCEPT !.rc = rc]
       ELSE /\ grand' = "error"
            /\ procs' = [procs EXCEPT !.rc = rc, !.gerr = "decode"]
            /\ UNCHANGED <<output, status>>
    /\ UNCHANGED <<files, inv, child, runId, fdLinked, session, nulled,
                   opens, writes, pvars>>

\* Line 81: a command whose grandchild was killed runs on and exits by
\* itself.
OrphanExit(rc) ==
    /\ grand = "killed"
    /\ cmdState = "running"
    /\ cmdState' = "exited"
    /\ procs' = [procs EXCEPT !.rc = rc]
    /\ UNCHANGED <<files, inv, child, grand, runId, status, fdLinked, output,
                   session, nulled, opens, writes, pvars>>

\* RunOpen2 that does not wait for the command (Popen in place of run).
RunOpen2_NoWait ==
    /\ grand \in {"wait", "open2"}
    /\ \/ /\ grand' = "write2"
          /\ files' = OpenW(runId)
          /\ fdLinked' = TRUE
          /\ opens' = opens + 1
          /\ procs' = procs
       \/ /\ grand' = "error"
          /\ procs' = [procs EXCEPT !.gerr = "open"]
          /\ UNCHANGED <<files, fdLinked, opens>>
    /\ UNCHANGED <<inv, child, runId, status, cmdState, output, session,
                   nulled, writes, pvars>>

\* Line 88, open(status_path, 'w'); when the file cannot be opened the
\* exception ends the grandchild.
RunOpen2 ==
    /\ grand = "open2"
    /\ \/ /\ grand' = "write2"
          /\ files' = OpenW(runId)
          /\ fdLinked' = TRUE
          /\ opens' = opens + 1
          /\ procs' = procs
       \/ /\ grand' = "error"
          /\ procs' = [procs EXCEPT !.gerr = "open"]
          /\ UNCHANGED <<files, fdLinked, opens>>
    /\ UNCHANGED <<inv, child, runId, status, cmdState, output, session,
                   nulled, writes, pvars>>

\* Line 88, json.dump of a record that does not fit the buffer: when the
\* long string is passed, the file object first writes the text that
\* precedes it.
RunSpill2 ==
    /\ grand = "write2"
    /\ Spills(status)
    /\ grand' = "spill2"
    /\ files' = IF fdLinked
                THEN [files EXCEPT ![runId] =
                        File(Prefix(JsonDump(status),
                                    Len(JsonDump(status)) - 2))]
                ELSE files
    /\ UNCHANGED <<inv, child, runId, status, fdLinked, cmdState, output,
                   session, nulled, opens, writes, pvars, procs>>

\* Line 88, the second write() of the same call: the long string; the
\* closing brace is still to be passed.
RunSpillStr2 ==
    /\ grand = "spill2"
    /\ grand' = "close2"
    /\ files' = IF fdLinked
                THEN [files EXCEPT ![runId] =
                        File(Prefix(JsonDump(status),
                                    Len(JsonDump(status)) - 1))]
                ELSE files
    /\ UNCHANGED <<inv, child, runId, status, fdLinked, cmdState, output,
                   session, nulled, opens, writes, pvars, procs>>

\* Line 88, json.dump and the close of the temporary file object, then
\* the grandchild returns from main.
RunWrite2 ==
    /\ \/ grand = "write2" /\ ~Spills(status)
       \/ grand = "close2"
    /\ grand' = "done"
    /\ files' = WriteClose(runId, status)
    /\ fdLinked' = FALSE
    /\ writes' = Append(writes, [val |-> status, data |-> JsonDump(status),
                                 cmd |-> cmdState, linked |-> fdLinked,
                                 by |-> "grand"])
    /\ UNCHANGED <<inv, child, runId, status, cmdState, output, session,
                   nulled, opens, pvars, procs>>

\* Where the grandchild is between line 71 and the end of line 88.
KillPoints ==
    {"redirect", "exec", "wait", "open2", "write2", "spill2", "close2"}

\* The grandchild is ended by a signal at any point of lines 71-88.
\* SIGINT in subprocess.run: when it comes before the wait for the command
\* has begun, the command is left running (ends FALSE); when subprocess.run
\* waits, the command ends before the exception goes on, by itself (code
\* rc) or killed by subprocess.run (-9).
\* SIGINT inside json.dump of line 88, when n chunks have been passed to
\* the file object: they are flushed when the object is released, the whole
\* record when n is its length.  Between the two write() calls of a long
\* record the interrupt is taken either at the signal check that follows
\* the first write(), and the long string is never written, or, when it
\* comes after that check, after the second write().
Kill(sig, n, rc, ends) ==
    /\ grand \in KillPoints
    /\ grand' = "killed"
    /\ fdLinked' = FALSE
    /\ LET text == JsonDump(status)
           flushes == sig = "INT" /\ grand \in {"write2", "spill2", "close2"}
           first == IF grand = "spill2" THEN Len(text) - 2
                    ELSE IF grand = "close2" THEN Len(text) - 1
                    ELSE 0
           last == IF grand = "write2" /\ Spills(status) THEN Len(text) - 2
                   ELSE IF grand = "spill2" THEN Len(text) - 1
                   ELSE Len(text)
           waits == sig = "INT" /\ grand = "wait"
           stops == waits /\ ends
       IN /\ n \in (IF flushes THEN first..last ELSE {0})
          /\ ends \in (IF waits THEN BOOLEAN ELSE {FALSE})
          /\ rc \in (IF stops THEN ExitCodes ELSE {0})
          /\ files' = IF flushes /\ fdLinked
                      THEN [files EXCEPT ![runId] = File(Prefix(text, n))]
                      ELSE files
          /\ writes' = IF flushes /\ n = Len(text)
                       THEN Append(writes,
                                   [val |-> status, data |-> text,
                                    cmd |-> cmdState, linked |-> fdLinked,
                                    by |-> "grand"])
                       ELSE writes
          /\ cmdState' = IF stops THEN "exited" ELSE cmdState
          /\ procs' = IF stops THEN [procs EXCEPT !.rc = rc] ELSE procs
    /\ UNCHANGED <<inv, child, runId, status, output, session, nulled,
                   opens, pvars>>

----------------------------------------------------------------------------
(* check: the poller, lines 11-39 *)

\* What a finished `check` leaves in the history.
Entry(c, end, rm) ==
    [id |-> c.id, st |-> c.st, out |-> JsonDump(c.st), end |-> end,
     rm |-> rm, got |-> c.got, data |-> c.data, phO |-> c.phO,
     phR |-> c.phR, phE |-> c.phE, late |-> c.late, cmdDone |-> c.cmdDone]

\* Lines 12-17: read the action id and build the path.
ChkBegin(id) ==
    /\ pc = "idle"
    /\ Len(log) < MaxPolls
    /\ pc' = "open"
    /\ cur' = [NoCur EXCEPT !.id = id, !.late = (id = runId /\ inv = "exited")]
    /\ UNCHANGED <<files, lvars, log>>

\* Lines 19, 21-25: open(status_path, 'r'); IOError when it is missing.
ChkOpen ==
    /\ pc = "open"
    /\ IF files[cur.id].exists
       THEN /\ pc' = "load"
            /\ cur' = [cur EXCEPT !.got = TRUE, !.phO = PhaseFor(cur.id)]
       ELSE /\ pc' = "report"
            /\ cur' = [cur EXCEPT !.st = StatusNotFound,
                                  !.phO = PhaseFor(cur.id),
                                  !.phR = PhaseFor(cur.id),
                                  !.phE = PhaseFor(cur.id),
                                  !.cmdDone = CmdDoneFor(cur.id)]
    /\ UNCHANGED <<files, lvars, log>>

\* Line 20, f.read(): it first asks the size of the file (fstat) to size
\* its buffer.
ChkStat ==
    /\ pc = "load"
    /\ cur.buf = 0
    /\ cur' = [cur EXCEPT !.buf = FirstBuffer(Size(files[cur.id].data))]
    /\ UNCHANGED <<pc, files, lvars, log>>

\* The buffer for the next read(), grown when it is full.
BufferFor(c) == IF c.off >= c.buf THEN NewBufferSize(c.off) ELSE c.buf

\* What the next read() returns: it asks for the room left in the buffer.
NextRead(c) == Slice(files[c.id].data, c.off, BufferFor(c) - c.off)

\* Line 20, a read() of f.read() that returns data.  The open file is the
\* one at status_path (only `check` unlinks), so a launcher that opens and
\* writes it between two read() calls changes what the later ones return.
ChkRead ==
    /\ pc = "load"
    /\ cur.buf > 0
    /\ \E new \in {NextRead(cur)} :
       /\ new # <<>>
       /\ cur' = [cur EXCEPT
                    !.data = Join(@, new),
                    !.off = @ + Size(new),
                    !.buf = BufferFor(cur),
                    !.phR = IF cur.off = 0 THEN PhaseFor(cur.id) ELSE @,
                    !.cmdDone = IF cur.off = 0 THEN CmdDoneFor(cur.id) ELSE @]
    /\ UNCHANGED <<pc, files, lvars, log>>

\* ChkLoad that reports a file that is not JSON as missing.
ChkLoad_AsMissing ==
    /\ pc = "load"
    /\ cur.buf > 0
    /\ NextRead(cur) = <<>>
    /\ LET r == JsonLoad(cur.data)
       IN cur' = [cur EXCEPT
                    !.phR = IF cur.off = 0 THEN PhaseFor(cur.id) ELSE @,
                    !.cmdDone = IF cur.off = 0 THEN CmdDoneFor(cur.id) ELSE @,
                    !.phE = PhaseFor(cur.id),
                    !.off = 0,
                    !.buf = 0,
                    !.st = IF r.ok THEN r.val ELSE StatusNotFound]
    /\ pc' = "report"
    /\ UNCHANGED <<files, lvars, log>>

\* Lines 20, 26-30: the read() that returns nothing ends f.read(), and
\* json.load parses the text read; ValueError when it is not JSON.  The
\* file object and its buffer end with the `with` block.
ChkLoad ==
    /\ pc = "load"
    /\ cur.buf > 0
    /\ NextRead(cur) = <<>>
    /\ LET r == JsonLoad(cur.data)
       IN cur' = [cur EXCEPT
                    !.phR = IF cur.off = 0 THEN PhaseFor(cur.id) ELSE @,
                    !.cmdDone = IF cur.off = 0 THEN CmdDoneFor(cur.id) ELSE @,
                    !.phE = PhaseFor(cur.id),
                    !.off = 0,
                    !.buf = 0,
                    !.st = IF r.ok THEN r.val ELSE StatusDecode]
    /\ pc' = "report"
    /\ UNCHANGED <<files, lvars, log>>

\* ChkReport without the test for 'running': every status is cleaned up.
ChkReport_AlwaysRemove ==
    /\ pc = "report"
    /\ IF ~HasKey(cur.st, "status")
       THEN /\ pc' = "idle"
            /\ log' = Append(log, Entry(cur, "raised", "none"))
            /\ cur' = NoCur
       ELSE /\ pc' = "remove"
            /\ UNCHANGED <<cur, log>>
    /\ UNCHANGED <<files, lvars>>

\* ChkReport that cleans up only after 'finished'.
ChkReport_OnlyFinished ==
    /\ pc = "report"
    /\ IF ~HasKey(cur.st, "status")
       THEN /\ pc' = "idle"
            /\ log' = Append(log, Entry(cur, "raised", "none"))
            /\ cur' = NoCur
       ELSE IF Get(cur.st, "status") = Str("finished")
       THEN /\ pc' = "remove"
            /\ UNCHANGED <<cur, log>>
       ELSE /\ pc' = "idle"
            /\ log' = Append(log, Entry(cur, "ok", "none"))
            /\ cur' = NoCur
    /\ UNCHANGED <<files, lvars>>

\* Lines 33-34: json.dump to stdout, then the test status['status'], which
\* raises KeyError or TypeError when there is no such item.
ChkReport ==
    /\ pc = "report"
    /\ IF ~HasKey(cur.st, "status")
       THEN /\ pc' = "idle"
            /\ log' = Append(log, Entry(cur, "raised", "none"))
            /\ cur' = NoCur
       ELSE IF Get(cur.st, "status") # Str("running")
       THEN /\ pc' = "remove"
            /\ UNCHANGED <<cur, log>>
       ELSE /\ pc' = "idle"
            /\ log' = Append(log, Entry(cur, "ok", "none"))
            /\ cur' = NoCur
    /\ UNCHANGED <<files, lvars>>

\* ChkRemove that never unlinks the file.
ChkRemove_Keep ==
    /\ pc = "remove"
    /\ pc' = "idle"
    /\ cur' = NoCur
    /\ log' = Append(log, Entry(cur, "ok", "missing"))
    /\ UNCHANGED <<files, lvars>>

\* Lines 35-39: os.remove(status_path), any exception ignored.
ChkRemove ==
    /\ pc = "remove"
    /\ pc' = "idle"
    /\ cur' = NoCur
    /\ IF files[cur.id].exists
       THEN /\ files' = [files EXCEPT ![cur.id] = Absent]
            /\ fdLinked' = IF cur.id = runId THEN FALSE ELSE fdLinked
            /\ log' = Append(log, Entry(cur, "ok", "removed"))
       ELSE /\ log' = Append(log, Entry(cur, "ok", "missing"))
            /\ UNCHANGED <<files, fdLinked>>
    /\ UNCHANGED <<inv, child, grand, runId, status, cmdState, output,
                   session, nulled, opens, writes, procs>>

----------------------------------------------------------------------------
(* Specifications *)

Launcher ==
    \/ \E id \in RunIds : RunBegin(id)
    \/ RunOpen1
    \/ RunWrite1
    \/ RunFork1
    \/ InvokerExit
    \/ Decouple
    \/ RunFork2
    \/ ChildExit
    \/ Redirect
    \/ CmdStart
    \/ \E rc \in ExitCodes, err \in StderrTexts, utf8 \in BOOLEAN :
          CmdExit(rc, err, utf8)
    \/ \E rc \in ExitCodes : OrphanExit(rc)
    \/ RunOpen2
    \/ RunSpill2
    \/ RunSpillStr2
    \/ RunWrite2
    \/ /\ grand \in KillPoints
       /\ \E sig \in Signals, n \in 0..Len(JsonDump(status)),
             rc \in ExitCodes, ends \in BOOLEAN :
             Kill(sig, n, rc, ends)

Poller ==
    \/ \E id \in Ids : ChkBegin(id)
    \/ ChkOpen
    \/ ChkStat
    \/ ChkRead
    \/ ChkLoad
    \/ ChkReport
    \/ ChkRemove

Next == Launcher \/ Poller

\* One `run` and a poller, interleaved in every order.
Spec == Init /\ [][Next]_vars

\* Texts a status file can hold when `check` finds it.
Contents ==
    { <<>>,
      <<P("}")>>,
      <<P("{"), S("status"), P(":")>>,
      <<P("{"), S("status"), P(":"), S("failed"), P(","), P("}")>>,
      <<P("{"), P("}")>>,
      <<P("{"), S("error"), P(":"), S("boom"), P("}")>>,
      <<P("["), P("]")>>,
      <<S("running")>>,
      <<P("{"), S("status"), P(":"), S("paused"), P("}")>>,
      <<P("{"), S("status"), P(":"), S("failed"), P(","),
        S("status"), P(":"), S("running"), P("}")>>,
      <<P("["), S("running"), P("]")>>,
      <<P("true")>>,
      <<P("{"), S("status"), P(":"), N("1"), P("}")>>,
      <<P("{"), S("status"), P(":"), P("["), P("]"), P("}")>>,
      <<P("{"), S("status"), P(":"),
        P("{"), S("status"), P(":"), S("running"), P("}"), P("}")>> }
    \cup { JsonDump(StatusRunning) }
    \cup { JsonDump(TerminalStatus(rc, err)) :
             rc \in ExitCodes, err \in StderrTexts }

InitFiles == {Absent} \cup { File(d) : d \in Contents }

InitCheck ==
    /\ files \in [Ids -> InitFiles]
    /\ LauncherInit
    /\ PollerInit

\* `check` alone, on every file it can find.
SpecCheck == InitCheck /\ [][Poller]_vars

----------------------------------------------------------------------------
(* Vocabulary of the properties *)

\* The status word a value reports, "" when it has none.
StatusOf(val) ==
    IF HasKey(val, "status") /\ Get(val, "status").kind = "str"
    THEN Get(val, "status").s
    ELSE ""

\* The poller takes a step that ends the `check` in progress.
PollEnds == pc # "idle" /\ pc' = "idle"

\* The poller takes a step.
PollStep == pc' # pc \/ cur' # cur

\* Entry j is the next finished `check` after entry i for the same id.
NextPoll(i, j) ==
    /\ i < j
    /\ log[i].id = log[j].id
    /\ \A k \in DOMAIN log : (i < k /\ k < j) => log[k].id # log[i].id

TextRunning == <<P("{"), S("status"), P(":"), S("running"), P("}")>>
TextFinished == <<P("{"), S("status"), P(":"), S("finished"), P("}")>>
TextFailed(err) ==
    <<P("{"), S("status"), P(":"), S("failed"), P(","),
      S("error"), P(":"), S(err), P("}")>>
TextNotFound == TextFailed("status file not found")
TextDecode == TextFailed("unable to decode status file")

----------------------------------------------------------------------------
(* C1 *)

\* C1: a `check` that reports `running` ends without deleting the status
\* file: the file it read exists, unchanged, when the poll finishes.
C1_RunningPollKeepsFile ==
    [][ (PollEnds /\ cur.got /\ StatusOf(cur.st) = "running")
          => (files[cur.id].exists /\ files'[cur.id] = files[cur.id]) ]_vars

C1_Witness ==
    \E i \in DOMAIN log :
        /\ log[i].id = runId
        /\ log[i].out = TextRunning
        /\ log[i].rm = "none"
        /\ files[runId] = File(TextRunning)

----------------------------------------------------------------------------
(* C2 *)

\* A finished `check` that reported a status other than `running`.
Terminal(e) == e.end = "ok" /\ StatusOf(e.st) # "running"

\* C2 as stated: after a `check` that reports a non-running status, the
\* next `check` for the same id reports "status file not found", whatever
\* the interleaving with the launcher's two writes.
C2_Orig ==
    \A i, j \in DOMAIN log :
        (NextPoll(i, j) /\ Terminal(log[i])) => log[j].out = TextNotFound

\* No `check` for the id of entry j up to entry j opened the status file
\* before the launcher's first write was complete.
PolledAfterFirstWrite(j) ==
    \A k \in DOMAIN log : (k <= j /\ log[k].id = log[j].id) => log[k].phO >= 2

\* C2 (amended): when no `check` for the id looked for the file before the
\* launcher's first write was complete, the `check` that follows a
\* non-running report for the same id reports "status file not found".
C2_NotFoundAfterTerminal ==
    \A i, j \in DOMAIN log :
        (NextPoll(i, j) /\ Terminal(log[i]) /\ PolledAfterFirstWrite(j))
            => (log[j].out = TextNotFound /\ log[j].end = "ok")

C2_Witness ==
    \E i, j \in DOMAIN log :
        /\ NextPoll(i, j) /\ PolledAfterFirstWrite(j)
        /\ log[i].id = runId
        /\ log[i].out = TextFinished
        /\ log[i].rm = "removed"
        /\ log[j].out = TextNotFound

----------------------------------------------------------------------------
(* C3 *)

C3_Writes ==
    /\ Len(writes) <= 2
    /\ Len(writes) >= 1 =>
          (writes[1].data = TextRunning /\ writes[1].cmd = "notstarted")
    /\ Len(writes) = 2 =>
          /\ writes[2].cmd = "exited"
          /\ StatusOf(writes[2].val) \in {"finished", "failed"}
          /\ writes[2].data = JsonDump(writes[2].val)
    /\ grand = "done" => Len(writes) = 2

C3_NoWayBack ==
    \A id \in Ids :
        (files[id].exists
            /\ StatusOf(JsonLoad(files[id].data).val) \in {"finished", "failed"})
        => ~(files'[id].exists /\ files'[id].data = TextRunning)

\* C3: the launcher's first write stores `running`; there is at most one
\* later write, exactly one when the grandchild runs to its end; that write
\* is made after the command has exited and stores `finished` or `failed`;
\* a file holding a terminal status never holds `running` again.
C3_Lifecycle == [](C3_Writes) /\ [][C3_NoWayBack]_vars

C3_Witness ==
    /\ grand = "done"
    /\ Len(writes) = 2
    /\ writes[2].linked
    /\ StatusOf(JsonLoad(files[runId].data).val) = "failed"

----------------------------------------------------------------------------
(* C4 *)

\* The first write is complete and stored `running`; unless a `check` has
\* removed it since, the file exists at the path.
RunningWritten ==
    /\ Len(writes) >= 1
    /\ writes[1].data = TextRunning
    /\ (\A i \in DOMAIN log : log[i].id = runId => log[i].rm # "removed")
          => /\ files[runId].exists
             /\ Phase = 2 => files[runId].data = TextRunning

\* C4 as stated: in every state where the invoker of `run` has returned,
\* with or without an error, the status file has been written.
C4_Orig ==
    (inv \in {"parent1", "exited", "error"} \/ child # "none")
        => RunningWritten

\* The invoker has come to the first fork of line 56.
ForkReached ==
    \/ inv \in {"parent1", "exited"}
    \/ child # "none"
    \/ inv = "error" /\ opens >= 1

\* C4 (amended): the first write is complete before the first fork is
\* attempted, so in every state where the invoker has exited with code 0
\* or a child exists; an invoker that cannot open the status file ends
\* with exit code 1 and leaves no file, no write and no child.
C4_RunningBeforeReturn ==
    /\ (ForkReached \/ procs.invCode = 0) => RunningWritten
    /\ (inv = "error" /\ opens = 0) =>
          /\ procs.invCode = 1
          /\ child = "none"
          /\ writes = <<>>
          /\ ~files[runId].exists

C4_Witness ==
    /\ inv = "exited"
    /\ Phase = 2
    /\ files[runId] = File(TextRunning)

----------------------------------------------------------------------------
(* C5 and C6 *)

\* A `check` in progress or finished, with what it read and when.
Polls ==
    { [id |-> log[i].id, st |-> log[i].st, got |-> log[i].got,
       phR |-> log[i].phR, phE |-> log[i].phE, out |-> log[i].out,
       late |-> log[i].late,
       cmdDone |-> log[i].cmdDone] : i \in DOMAIN log }
    \cup (IF pc \in {"report", "remove"}
          THEN { [id |-> cur.id, st |-> cur.st, got |-> cur.got,
                  phR |-> cur.phR, phE |-> cur.phE,
                  out |-> JsonDump(cur.st),
                  late |-> cur.late, cmdDone |-> cur.cmdDone] }
          ELSE {})

\* C5: after exit code 0 the terminal write is {status: finished} without
\* an error field, and a `check` that reads the file after that write
\* reports exactly that.
C5_ZeroIsFinished ==
    (Len(writes) = 2 /\ output.returncode = 0) =>
        /\ writes[2].data = TextFinished
        /\ \A q \in Polls :
              (q.id = runId /\ q.got /\ q.phR = 4) => q.out = TextFinished

C5_Witness ==
    /\ output.returncode = 0
    /\ output.stderr = "boom"
    /\ \E i \in DOMAIN log :
          /\ log[i].id = runId /\ log[i].got /\ log[i].phR = 4
          /\ log[i].out = TextFinished

\* C6: after a non-zero exit code the terminal write is `failed` with the
\* captured stderr as `error`; `failed` is written only for a non-zero
\* code and `finished` only for zero.
C6_NonZeroIsFailed ==
    Len(writes) = 2 =>
        /\ output.returncode # 0 => writes[2].data = TextFailed(output.stderr)
        /\ StatusOf(writes[2].val) = "failed" => output.returncode # 0
        /\ StatusOf(writes[2].val) = "finished" => output.returncode = 0

C6_Witness ==
    /\ Len(writes) = 2
    /\ output.returncode = -9
    /\ files[runId] = File(TextFailed("boom"))

----------------------------------------------------------------------------
(* C7 *)

\* C7: a `check` that finds no status file reports "status file not
\* found", and none of its steps changes the file system.
C7_NotFoundLeavesFiles ==
    /\ [](\A q \in Polls : ~q.got => q.out = TextNotFound)
    /\ [][ (PollStep /\ pc \in {"open", "report", "remove"} /\ ~cur.got)
             => files' = files ]_vars

----------------------------------------------------------------------------
(* C8 *)

\* Texts that are not JSON: empty, a stray brace, a record cut short, a
\* trailing comma.
InvalidTexts ==
    { <<>>,
      <<P("}")>>,
      <<P("{"), S("status"), P(":")>>,
      <<P("{"), S("status"), P(":"), S("failed"), P(","), P("}")>> }

\* C8: a `check` that finds a status file whose text is not JSON, the
\* empty text included, reports "unable to decode status file".
C8_InvalidIsDecodeError ==
    /\ \A i \in DOMAIN log :
          (log[i].got /\ log[i].data \in InvalidTexts)
              => (log[i].out = TextDecode /\ log[i].end = "ok")
    /\ (pc \in {"report", "remove"} /\ cur.got /\ cur.data \in InvalidTexts)
          => JsonDump(cur.st) = TextDecode

C8_Witness ==
    \E i, j \in DOMAIN log :
        /\ log[i].got /\ log[i].data = <<>> /\ log[i].out = TextDecode
        /\ log[j].got /\ log[j].data = <<P("{"), S("status"), P(":")>>
        /\ log[j].out = TextDecode

----------------------------------------------------------------------------
(* C9 *)

\* The step that ends a `check` whose file held text that is not JSON.
InvalidPollEnds == PollEnds /\ cur.got /\ cur.data \in InvalidTexts

\* C9 as stated: a `check` that finds invalid content does not delete the
\* file; it exists, with the same content, when the poll finishes.
C9_Orig == [][ InvalidPollEnds => files'[cur.id] = File(cur.data) ]_vars

\* C9 (amended): a `check` that finds invalid content reports the decode
\* failure and then deletes the file: the step that ends the poll is the
\* removal, the file exists before it and is absent after it.
C9_InvalidIsRemoved ==
    [][ InvalidPollEnds =>
          /\ pc = "remove"
          /\ cur.st = StatusDecode
          /\ files[cur.id].exists
          /\ files'[cur.id] = Absent ]_vars

C9_Witness ==
    \E i \in DOMAIN log :
        /\ log[i].got /\ log[i].data = <<P("}")>>
        /\ log[i].out = TextDecode
        /\ log[i].rm = "removed"
        /\ files[log[i].id] = Absent

----------------------------------------------------------------------------
(* C10 *)

\* C10: whatever the status file holds, `check` writes one status record
\* to standard output and ends normally, without raising.
C10_NeverFatal ==
    \A i \in DOMAIN log :
        /\ log[i].end = "ok"
        /\ JsonLoad(log[i].out).ok
        /\ StatusOf(JsonLoad(log[i].out).val) # ""

----------------------------------------------------------------------------
(* C11 *)

\* The grandchild was killed or ended by an unhandled error.
Dead == grand \in {"killed", "error"}

\* Every `check` for the id of the `run` that has opened the status file
\* did so after the launcher's first write was complete.
OpenedAfterFirstWrite ==
    /\ \A i \in DOMAIN log : log[i].id = runId => log[i].phO >= 2
    /\ (pc \in {"load", "report", "remove"} /\ cur.id = runId)
          => cur.phO >= 2

\* C11 as stated: when the grandchild dies after `running` was written and
\* before the terminal status is written, the file keeps `running`, and a
\* `check` that reads it from then on gets `running`.
C11_Orig ==
    /\ []((Dead /\ Len(writes) = 1) => files[runId] = File(TextRunning))
    /\ [][ (Dead /\ Len(writes) = 1 /\ cur.id = runId
              /\ pc = "load" /\ pc' = "report")
             => cur'.st = StatusRunning ]_vars

\* The grandchild died before its open(status_path, 'w') of line 88.
DeadBeforeOpen2 == Dead /\ opens = 1

\* C11 (amended): when the grandchild dies before the second open of the
\* status file, and no `check` for the id opened the file before the first
\* write was complete, the file holds `running` in every later state and
\* every `check` for the id reports `running` and leaves the file alone.
C11_RunningForever ==
    /\ []((DeadBeforeOpen2 /\ OpenedAfterFirstWrite) =>
            /\ files[runId] = File(TextRunning)
            /\ \A i \in DOMAIN log :
                  log[i].id = runId
                      => (log[i].out = TextRunning /\ log[i].rm = "none"))
    /\ [][ (DeadBeforeOpen2 /\ OpenedAfterFirstWrite /\ PollStep
              /\ cur.id = runId)
             => /\ files' = files
                /\ (pc = "load" /\ pc' = "report")
                      => cur'.st = StatusRunning
                /\ pc = "report" => pc' = "idle" ]_vars

C11_Witness ==
    /\ grand = "killed"
    /\ cmdState = "running"
    /\ opens = 1
    /\ OpenedAfterFirstWrite
    /\ files[runId] = File(TextRunning)
    /\ Len(log) = MaxPolls
    /\ \A i \in DOMAIN log :
          log[i].id = runId /\ log[i].late /\ log[i].out = TextRunning

----------------------------------------------------------------------------
(* C12 *)

\* C12: the command is started by a process whose parent is not the
\* invoker of `run` and whose session was created by setsid after the
\* first fork; it is never started before that; and the step in which the
\* invoker exits leaves the command and the grandchild as they are.
C12_Detached ==
    /\ [](session = "own" => procs.cppid # "none")
    /\ [](cmdState # "notstarted" =>
            /\ procs.execBy = "grand"
            /\ procs.gppid \in {"child", "init"}
            /\ procs.gsid = "own")
    /\ [][ (inv # "exited" /\ inv' = "exited")
             => (cmdState' = cmdState /\ grand' = grand) ]_vars

C12_Witness ==
    /\ inv = "exited"
    /\ child = "exited"
    /\ cmdState = "running"
    /\ grand = "wait"
    /\ procs.gppid = "init"
    /\ procs.gsid = "own"

----------------------------------------------------------------------------
(* C13 *)

\* C13: once the first fork has returned in the invoker, its exit needs
\* nothing else (it waits for no other process and not for the command);
\* it exits with code 0; it never starts the command, and its only write
\* is the first one, of `running`.
C13_InvokerExitsAtOnce ==
    /\ inv = "parent1" => ENABLED InvokerExit
    /\ inv = "exited" => procs.invCode = 0
    /\ procs.invCode = 0 => inv = "exited"
    /\ procs.execBy \in {"none", "grand"}
    /\ \A i \in DOMAIN writes :
          writes[i].by = "invoker" => (i = 1 /\ writes[i].data = TextRunning)

C13_Witness ==
    /\ inv = "exited"
    /\ procs.invCode = 0
    /\ child = "exited"
    /\ grand = "done"
    /\ procs.execs = 1
    /\ writes[1].by = "invoker"
    /\ writes[2].by = "grand"

----------------------------------------------------------------------------
(* C14 *)

\* The history of finished polls is a window: when it is full it starts
\* again, so that the poller can go on polling for ever.
Forget ==
    /\ pc = "idle"
    /\ Len(log) = MaxPolls
    /\ log' = <<>>
    /\ UNCHANGED <<files, lvars, pc, cur>>

\* A poller that polls the id of the `run`, again and again.
PollerLive ==
    \/ \E id \in Ids : id = runId /\ ChkBegin(id)
    \/ ChkOpen
    \/ ChkStat
    \/ ChkRead
    \/ ChkLoad
    \/ ChkReport
    \/ ChkRemove
    \/ Forget

Invoker == (\E id \in RunIds : RunBegin(id)) \/ RunOpen1 \/ RunWrite1
              \/ RunFork1 \/ InvokerExit
Child == Decouple \/ RunFork2 \/ ChildExit
Grand == Redirect \/ CmdStart
            \/ (\E rc \in ExitCodes, err \in StderrTexts, utf8 \in BOOLEAN :
                   CmdExit(rc, err, utf8))
            \/ RunOpen2 \/ RunSpill2 \/ RunSpillStr2 \/ RunWrite2

\* The runs in which no process of the launcher is killed.
NextLive == Invoker \/ Child \/ Grand \/ PollerLive

\* Every process that can take a step eventually takes one, and the
\* command terminates.
SpecLive ==
    /\ Init
    /\ [][NextLive]_vars
    /\ WF_vars(Invoker)
    /\ WF_vars(Child)
    /\ WF_vars(Grand)
    /\ WF_vars(PollerLive)

\* The failures the claim names: a fork failed or was not reached, the
\* command did not start, or the grandchild was killed.
FailedAsStated ==
    \/ inv = "error"
    \/ child = "error"
    \/ grand = "killed"
    \/ grand = "error" /\ procs.gerr = "start"

TerminalWritten ==
    /\ Len(writes) = 2
    /\ StatusOf(writes[2].val) \in {"finished", "failed"}

\* C14: once `run` has started, unless a fork or the command's start
\* fails or the grandchild is killed, the launcher eventually writes a
\* terminal status and the poller gets a report that is not `running`.
C14_Orig ==
    (inv = "open1") ~>
        (FailedAsStated \/ (TerminalWritten
                              /\ \E i \in DOMAIN log :
                                    log[i].id = runId /\ Terminal(log[i])))

----------------------------------------------------------------------------
(* C15 *)

\* A `check` for the id of the `run`, in progress or finished, that read
\* the file, from the first read() to the one that found its end, after
\* the command had exited and before the second open.
StaleReads ==
    { q \in Polls : /\ q.id = runId /\ q.got /\ q.cmdDone
                    /\ q.phR = 2 /\ q.phE = 2 }

\* C15: a `check` that reads the status file after the command has exited
\* and before the launcher opens the file for its second write reports the
\* stale `running`; such a poll is reachable (the witness).
C15_StaleRunning == \A q \in StaleReads : q.out = TextRunning

C15_Witness ==
    /\ cmdState = "exited"
    /\ output.returncode = 0
    /\ \E i \in DOMAIN log :
          /\ log[i].id = runId /\ log[i].got /\ log[i].cmdDone
          /\ log[i].phR = 2 /\ log[i].phE = 2
          /\ log[i].out = TextRunning
          /\ log[i].rm = "none"

----------------------------------------------------------------------------
(* C16 *)

\* Every `check` for the id of the `run` was started after the invoker of
\* `run` had exited.
LateOnly ==
    /\ \A i \in DOMAIN log : log[i].id = runId => log[i].late
    /\ (pc # "idle" /\ cur.id = runId) => cur.late

\* The command of the `run` has exited with code 0.
Succeeded == cmdState = "exited" /\ procs.rc = 0

\* No finished `check` for the id reports `failed` unless an earlier one
\* has reported `finished`.
NoFailedBeforeFinished ==
    \A i \in DOMAIN log :
        (log[i].id = runId /\ StatusOf(log[i].st) = "failed")
            => \E k \in DOMAIN log :
                  k < i /\ log[k].id = runId /\ log[k].out = TextFinished

\* C16 as stated: with a poller that starts after the invoker has exited
\* and a command that exits with code 0, no `check` reports `failed`
\* before some `check` has reported `finished`.
C16_Orig == (LateOnly /\ Succeeded) => NoFailedBeforeFinished

\* The reading of the file by a finished `check` overlaps the launcher's
\* terminal write: its first read() came before the end of the second
\* write, and the read() that found the end of the file after the second
\* open, which truncates the file.
ReadInSecondWrite(e) == e.got /\ e.phR <= 3 /\ e.phE >= 3

\* A `check` that lost the race with the terminal write: it read no
\* record, reported the decode failure and deleted the file.
LostRace(e) ==
    /\ e.id = runId
    /\ ReadInSecondWrite(e)
    /\ e.out = TextDecode
    /\ e.rm = "removed"

\* C16 (amended): with a poller that starts after the invoker has exited
\* and a command that exits with code 0, a `check` reports `failed` before
\* any `check` has reported `finished` only through the race: it is a
\* `check` whose reading overlapped the terminal write, which reports
\* "unable to decode status file" and deletes the file, or a later one,
\* which reports "status file not found".  A `check` whose reading
\* overlapped the terminal write and got the whole `running` record
\* reports `running` and deletes nothing.
C16_NoLostSuccess ==
    (LateOnly /\ Succeeded) =>
        \A i \in DOMAIN log :
            /\ (log[i].id = runId /\ StatusOf(log[i].st) = "failed"
                  /\ ~\E k \in DOMAIN log :
                        k < i /\ log[k].id = runId
                              /\ log[k].out = TextFinished)
                  => \/ LostRace(log[i])
                     \/ /\ ~log[i].got
                        /\ log[i].out = TextNotFound
                        /\ \E k \in DOMAIN log : k < i /\ LostRace(log[k])
            /\ (log[i].id = runId /\ log[i].got
                  /\ log[i].data = TextRunning)
                  => (log[i].out = TextRunning /\ log[i].rm = "none")
            /\ (log[i].id = runId
                  /\ \E k \in DOMAIN log : k < i /\ LostRace(log[k]))
                  => log[i].out = TextNotFound

C16_Witness ==
    /\ LateOnly /\ Succeeded
    /\ Len(writes) = 2 /\ writes[2].data = TextFinished
    /\ \E i, j \in DOMAIN log :
          /\ i < j
          /\ LostRace(log[i])
          /\ log[i].phR = 2 /\ log[i].phE = 4
          /\ log[i].data = TextRunning \o <<P("}")>>
          /\ log[j].id = runId /\ log[j].out = TextNotFound

----------------------------------------------------------------------------
(* C17 *)

\* C17: a `check` reports `finished` only for the id of the `run`, only
\* from a read made after the command had exited and the terminal status
\* was written, and only when the exit code was 0.
C17_FinishedOnlyAfterZero ==
    \A q \in Polls :
        StatusOf(q.st) = "finished" =>
            /\ q.id = runId
            /\ q.cmdDone
            /\ q.phR = 4
            /\ cmdState = "exited"
            /\ procs.rc = 0
            /\ output.returncode = 0

C17_Witness ==
    /\ pc = "remove"
    /\ cur.id = runId
    /\ cur.st = StatusFinished
    /\ cur.cmdDone
    /\ output.returncode = 0
    /\ \E i \in DOMAIN log : log[i].id = runId /\ log[i].out = TextRunning

----------------------------------------------------------------------------
(* C18 *)

\* Who starts the command and writes the terminal status, and when: only
\* the grandchild, with its standard streams on /dev/null.
OnlyGrandchild ==
    /\ procs.execBy \in {"none", "grand"}
    /\ procs.execs >= 1 => (procs.execBy = "grand" /\ procs.execNulled)
    /\ \A i \in DOMAIN writes :
          i >= 2 => (writes[i].by = "grand" /\ nulled /\ procs.execs = 1)

\* C18 as stated: the command is started at most once, and exactly once
\* when both forks succeed (seen when the grandchild has come to its own
\* end); only the grandchild starts it and writes the terminal status,
\* after the redirection.
C18_Orig ==
    /\ procs.execs <= 1
    /\ grand \in {"done", "error"} => procs.execs = 1
    /\ OnlyGrandchild

\* C18 (amended): the command is started at most once; exactly once when
\* both forks succeed, the grandchild is not killed before line 81 and
\* subprocess.run can start the command; only the grandchild starts it
\* and writes the terminal status, after the redirection.
C18_AtMostOnce ==
    /\ procs.execs <= 1
    /\ grand \in {"wait", "open2", "write2", "spill2", "close2", "done"}
          => procs.execs = 1
    /\ grand \in {"none", "redirect", "exec"} => procs.execs = 0
    /\ grand = "error" => (procs.execs = 0 <=> procs.gerr = "start")
    /\ procs.execs = 1 <=> cmdState # "notstarted"
    /\ OnlyGrandchild

C18_Witness ==
    /\ grand = "done"
    /\ inv = "exited" /\ child = "exited"
    /\ procs.execs = 1
    /\ procs.execBy = "grand"
    /\ procs.execNulled
    /\ Len(writes) = 2 /\ writes[2].by = "grand"

====
